---------------------------- MODULE Spec2Model ----------------------------
(***************************************************************************)
(* A model of the 2D-tree point index (kdtree::PointSet), of its geometric *)
(* value types (Point, Rect) and of the bounded slab allocator             *)
(* (pool::Pool) that backs the candidate map of a nearest-neighbour query. *)
(*                                                                         *)
(* Coordinates are integers of a small grid.  A distance is represented by *)
(* its square, which orders and identifies distances exactly as the        *)
(* Euclidean distance does; an infinite coordinate or distance is INF.     *)
(* The tree is a heap of nodes: a node is named by its index in `nodes`    *)
(* (the order of creation) and 0 is the null pointer.                      *)
(*                                                                         *)
(* Spec is the index with its constructor, put, contains and nearest;      *)
(* SpecRange is the index with range queries, over a wider grid; SpecPool  *)
(* is the allocator on its own.                                            *)
(***************************************************************************)
EXTENDS Integers, Sequences, FiniteSets

VARIABLES
    phase,       \* "new" before the constructor has run, "ready" after it
    root,        \* PointSet::root: a node index, 0 for nullptr
    nodes,       \* the heap of Node objects, in order of creation
    inputs,      \* history: the points given to the constructor and to put
    ret,         \* the call that has just returned and what it returned
    m_used_map   \* Pool::m_used_map of the pool of the allocator scenario

vars == <<phase, root, nodes, inputs, ret, m_used_map>>

(***************************************************************************)
(* Bounds of the model.                                                    *)
(***************************************************************************)
MaxX == 1
MaxY == 1
MaxSize == 3
MaxK == 2
MaxCap == 3
\* The wider grid and the larger tree of the range-query scenario.
WideX == 3
WideY == 1
WideSize == 4

(***************************************************************************)
(* Program constants.  INF stands for the infinite double; EPS for the     *)
(* machine epsilon, which on the integer grid separates exactly the        *)
(* coordinates that differ.                                                *)
(***************************************************************************)
INF == 1000
EPS == 1

Grid(mx, my) == [x : 0..mx, y : 0..my]
Points == Grid(MaxX, MaxY)
WidePoints == Grid(WideX, WideY)

Abs(v) == IF v < 0 THEN -v ELSE v
Min2(a, b) == IF a <= b THEN a ELSE b
Max2(a, b) == IF a >= b THEN a ELSE b
SetMin(S) == CHOOSE m \in S : \A v \in S : m <= v

(***************************************************************************)
(* primitives.h: Point                                                     *)
(***************************************************************************)
Point(px, py) == [x |-> px, y |-> py]

double_equal(a, b) == Abs(a - b) < EPS

IsInf(v) == 2 * Abs(v) > INF

\* std::hypot and std::abs of coordinate differences, as squares.
hypot(dx, dy) == IF IsInf(dx) \/ IsInf(dy) THEN INF ELSE dx * dx + dy * dy
fabs(d) == IF IsInf(d) THEN INF ELSE d * d

Point_distance(p, another) == hypot(p.x - another.x, p.y - another.y)

Point_eq(p, another) == double_equal(p.x, another.x) /\ double_equal(p.y, another.y)

(***************************************************************************)
(* primitives.h: Rect                                                      *)
(***************************************************************************)
Rect(lb, rt) == [left_bottom |-> lb, right_top |-> rt]
xmin(r) == r.left_bottom.x
ymin(r) == r.left_bottom.y
xmax(r) == r.right_top.x
ymax(r) == r.right_top.y

Rect_contains(r, p) ==
    p.x <= xmax(r) /\ p.x >= xmin(r) /\ p.y <= ymax(r) /\ p.y >= ymin(r)

Rect_distance(r, p) ==
    IF Rect_contains(r, p) THEN 0
    ELSE SetMin({
        Point_distance(p, Point(xmin(r), ymin(r))),
        Point_distance(p, Point(xmin(r), ymax(r))),
        Point_distance(p, Point(xmax(r), ymin(r))),
        Point_distance(p, Point(xmax(r), ymax(r))),
        IF p.x <= xmax(r) /\ p.x >= xmin(r)
            THEN Min2(fabs(p.y - ymin(r)), fabs(p.y - ymax(r))) ELSE INF,
        IF p.y <= ymax(r) /\ p.y >= ymin(r)
            THEN Min2(fabs(p.x - xmin(r)), fabs(p.x - xmax(r))) ELSE INF })

intersects_impl(r, another) ==
    \/ Rect_contains(r, Point(xmin(another), ymin(another)))
    \/ Rect_contains(r, Point(xmin(another), ymax(another)))
    \/ Rect_contains(r, Point(xmax(another), ymin(another)))
    \/ Rect_contains(r, Point(xmax(another), ymax(another)))

intersects(r, another) == intersects_impl(r, another) \/ intersects_impl(another, r)

WholePlane == Rect(Point(-INF, -INF), Point(INF, INF))

(***************************************************************************)
(* primitives.h: PointSet::Orientation, PointSet::Node                     *)
(***************************************************************************)
next(that) == IF that = "Vertical" THEN "Horizontal" ELSE "Vertical"

Node(point_, orientation_) ==
    [point |-> point_, orientation |-> orientation_, left |-> 0, right |-> 0, size |-> 1]

EmptyTree == [root |-> 0, nodes |-> <<>>]
Tree == [root |-> root, nodes |-> nodes]

(***************************************************************************)
(* 2dtree.cpp: PointSet::put                                               *)
(***************************************************************************)
\* A put that routes a key equal to the node's coordinate to the left.
put_right_strict(n, key) ==
    \/ n.orientation = "Vertical" /\ key.x > n.point.x
    \/ n.orientation = "Horizontal" /\ key.y > n.point.y

\* The routing test of put's loop (lines 84-85).
put_right(n, key) ==
    \/ n.orientation = "Vertical" /\ key.x >= n.point.x
    \/ n.orientation = "Horizontal" /\ key.y >= n.point.y

\* The link made after the loop (lines 95-106).
put_attach(t, ns, prev, is_now_right, now_orientation, key) ==
    LET id == Len(ns) + 1
        grown == Append(ns, Node(key, now_orientation))
    IN  IF prev # 0
        THEN [root |-> t.root,
              nodes |-> IF is_now_right
                        THEN [grown EXCEPT ![prev].right = id]
                        ELSE [grown EXCEPT ![prev].left = id]]
        ELSE [root |-> id, nodes |-> grown]

\* The loop of put (lines 78-94): ns is the heap as the loop has left it.
RECURSIVE put_loop(_, _, _, _, _, _, _)
put_loop(t, ns, now, prev, is_now_right, now_orientation, key) ==
    IF now = 0
    THEN put_attach(t, ns, prev, is_now_right, now_orientation, key)
    ELSE IF Point_eq(key, ns[now].point)
    THEN [root |-> t.root, nodes |-> ns]
    ELSE LET bumped == [ns EXCEPT ![now].size = @ + 1]
             right == put_right(ns[now], key)
         IN  put_loop(t, bumped,
                      IF right THEN ns[now].right ELSE ns[now].left,
                      now, right, next(now_orientation), key)

put(t, key) == put_loop(t, t.nodes, t.root, 0, FALSE, "Vertical", key)

(***************************************************************************)
(* 2dtree.cpp: PointSet::balancing and the constructor                     *)
(***************************************************************************)
AxisKey(p, now) == IF now = "Vertical" THEN p.x ELSE p.y

Arrangements(n) ==
    {f \in [1..n -> 1..n] : \A i, j \in 1..n : i # j => f[i] # f[j]}

\* std::sort (line 37) is not stable: every arrangement of the range that is
\* ordered by the comparator is a result it may produce.
sort_results(s, now) ==
    LET n == Len(s)
        arranged(f) == [i \in 1..n |-> s[f[i]]]
    IN  {arranged(f) : f \in
            {g \in Arrangements(n) :
                \A i \in 1..(n - 1) :
                    ~(AxisKey(s[g[i + 1]], now) < AxisKey(s[g[i]], now))}}

RECURSIVE balancing(_, _, _)
balancing(t, s, now) ==
    IF s = <<>> THEN {t}
    ELSE UNION {
        LET middle == Len(ss) \div 2 + 1
            t1 == put(t, ss[middle])
        IN  UNION { balancing(t2, SubSeq(ss, middle + 1, Len(ss)), next(now)) :
                    t2 \in balancing(t1, SubSeq(ss, 1, middle - 1), next(now)) }
        : ss \in sort_results(s, now) }

(***************************************************************************)
(* 2dtree.cpp: PointSet::contains, PointSet::size, PointSet::empty         *)
(***************************************************************************)
\* A contains that routes a key equal to the node's coordinate to the left.
contains_right_strict(n, key) ==
    \/ n.orientation = "Vertical" /\ key.x > n.point.x
    \/ n.orientation = "Horizontal" /\ key.y > n.point.y

\* The routing test of contains' loop (lines 56-57).
contains_right(n, key) ==
    \/ n.orientation = "Vertical" /\ key.x >= n.point.x
    \/ n.orientation = "Horizontal" /\ key.y >= n.point.y

RECURSIVE contains_loop(_, _, _)
contains_loop(t, now, key) ==
    IF now = 0 THEN FALSE
    ELSE IF Point_eq(t.nodes[now].point, key) THEN TRUE
    ELSE contains_loop(t,
            IF contains_right(t.nodes[now], key)
            THEN t.nodes[now].right ELSE t.nodes[now].left,
            key)

contains(t, key) == contains_loop(t, t.root, key)

size(t) == IF t.root # 0 THEN t.nodes[t.root].size ELSE 0

empty(t) == t.root = 0 \/ t.nodes[t.root].size = 0

(***************************************************************************)
(* 2dtree.cpp: PointSet::split, PointSet::range, PointSet::range_impl      *)
(***************************************************************************)
\* The pair <<rect_left, rect_right>>.
split(rect_now, node_point, node_orientation) ==
    IF node_orientation = "Vertical"
    THEN <<Rect(rect_now.left_bottom, Point(node_point.x, ymax(rect_now))),
           Rect(Point(node_point.x, ymin(rect_now)), rect_now.right_top)>>
    ELSE <<Rect(rect_now.left_bottom, Point(xmax(rect_now), node_point.y)),
           Rect(Point(xmin(rect_now), node_point.y), rect_now.right_top)>>

\* The points range_impl inserts into ans_set below `node`.
RECURSIVE range_impl(_, _, _, _)
range_impl(t, key, node, rect_now) ==
    IF node = 0 THEN {}
    ELSE IF ~intersects(key, rect_now) THEN {}
    ELSE LET n == t.nodes[node]
             rects == split(rect_now, n.point, n.orientation)
         IN  (IF Rect_contains(key, n.point) THEN {n.point} ELSE {})
             \cup range_impl(t, key, n.left, rects[1])
             \cup range_impl(t, key, n.right, rects[2])

\* The points of the chain range returns (none for the pair of end iterators).
range(t, key) == range_impl(t, key, t.root, WholePlane)

(***************************************************************************)
(* mpool.h: pool::Pool.  Slot i of the pool is m_used_map[i + 1]; a        *)
(* pointer into the arena is the number of the slot it points to, and a    *)
(* negative pointer lies before the arena.                                 *)
(***************************************************************************)
npos == -1

NewPool(obj_count) == [i \in 1..obj_count |-> FALSE]

UsedCount(used) == Cardinality({i \in 1..Len(used) : used[i]})

\* The inner loop of find_empty_place (lines 68-72): the value of j after it.
RECURSIVE fep_inner(_, _, _, _)
fep_inner(used, n, k, j) ==
    IF k < n /\ j < Len(used)
    THEN IF used[j + 1] THEN j ELSE fep_inner(used, n, k + 1, j + 1)
    ELSE j

\* The outer loop of find_empty_place (lines 63-78) from index i on.
RECURSIVE fep_outer(_, _, _)
fep_outer(used, n, i) ==
    IF ~(i < Len(used)) THEN npos
    ELSE IF used[i + 1] THEN fep_outer(used, n, i + 1)
    ELSE LET j == fep_inner(used, n, 0, i)
         IN  IF n = j - i THEN i ELSE fep_outer(used, n, j + 1)

\* A scan that counts the free slots from the first free one on and does
\* not stop at an occupied slot.
find_empty_place_gaps(used, n) ==
    LET free == {i \in 0..(Len(used) - 1) : ~used[i + 1]}
    IN  IF n > Len(used) \/ free = {} \/ Cardinality(free) < n THEN npos
        ELSE SetMin(free)

find_empty_place(used, n) ==
    IF n > Len(used) THEN npos ELSE fep_outer(used, n, 0)

\* Pool::allocate: ok is FALSE when std::bad_alloc is thrown.
Pool_allocate(used, n) ==
    LET pos == find_empty_place(used, n)
    IN  IF pos # npos
        THEN [ok |-> TRUE, pos |-> pos,
              used |-> [i \in 1..Len(used) |->
                            IF i - 1 >= pos /\ i - 1 < pos + n THEN TRUE ELSE used[i]]]
        ELSE [ok |-> FALSE, pos |-> npos, used |-> used]

\* Pool::deallocate: the bitmap after it.
Pool_deallocate(used, ptr, n) ==
    IF ptr >= 0
    THEN LET offset == ptr
         IN  IF offset < Len(used)
             THEN LET end_delete == offset + Min2(n, Len(used) - offset)
                  IN  [i \in 1..Len(used) |->
                          IF i - 1 >= offset /\ i - 1 < end_delete THEN FALSE ELSE used[i]]
             ELSE used
    ELSE used

(***************************************************************************)
(* 2dtree.cpp: PointSet::nearest, PointSet::nearest_impl.  The candidate   *)
(* map ans_set is the set of its entries [first, second] (no two with the  *)
(* same key `first`), each with the pool slot its tree node occupies.  The *)
(* search state also records the peaks of the occupancy of the pool, of    *)
(* the size of the map at any instant (peakEntries) and at the end of a    *)
(* node visit (peakKept), whether an emplace met a key already held        *)
(* (tied), and whether an allocation has thrown (failed).                  *)
(***************************************************************************)
\* A pool with room for the k entries kept and none for the one tried.
pool_capacity_k(k) == k

\* create_pool(k + 1) at line 196: the capacity asked for.
pool_capacity(k) == k + 1

NewSearch(k) ==
    [ans |-> {}, used |-> NewPool(pool_capacity(k)),
     peakUsed |-> 0, peakEntries |-> 0, peakKept |-> 0, tied |-> FALSE, failed |-> FALSE]

Farthest(ans) == CHOOSE e \in ans : \A o \in ans : o.first <= e.first

\* ans_set.emplace(distance, point) (line 219): std::map allocates and builds
\* the node, looks the key up, and frees the node again when the key is there.
map_emplace(st, first, second) ==
    LET a == Pool_allocate(st.used, 1)
    IN  IF ~a.ok THEN [st EXCEPT !.failed = TRUE]
        ELSE LET present == \E e \in st.ans : e.first = first
                 grown == IF present THEN st.ans
                          ELSE st.ans \cup {[first |-> first, second |-> second, slot |-> a.pos]}
             IN  [ans |-> grown,
                  used |-> IF present THEN Pool_deallocate(a.used, a.pos, 1) ELSE a.used,
                  peakUsed |-> Max2(st.peakUsed, UsedCount(a.used)),
                  peakEntries |-> Max2(st.peakEntries, Cardinality(grown)),
                  peakKept |-> st.peakKept,
                  tied |-> st.tied \/ present,
                  failed |-> FALSE]

\* ans_set.erase(--ans_set.end()) under its guard (lines 220-222).
map_trim(st, k) ==
    LET trimmed ==
            IF Cardinality(st.ans) > k
            THEN LET last == Farthest(st.ans)
                 IN  [st EXCEPT !.ans = st.ans \ {last},
                                !.used = Pool_deallocate(st.used, last.slot, 1)]
            ELSE st
    IN  [trimmed EXCEPT !.peakKept = Max2(@, Cardinality(trimmed.ans))]

RECURSIVE nearest_impl(_, _, _, _, _, _)
nearest_impl(t, key, k, node, st, rect_now) ==
    IF node = 0 \/ st.failed THEN st
    ELSE LET n == t.nodes[node]
             put_in == map_emplace(st, Point_distance(key, n.point), n.point)
         IN  IF put_in.failed THEN put_in
             ELSE LET kept == map_trim(put_in, k)
                  IN  IF Rect_distance(rect_now, key) > Farthest(kept.ans).first
                      THEN kept
                      ELSE LET rects == split(rect_now, n.point, n.orientation)
                               after_left == nearest_impl(t, key, k, n.left, kept, rects[1])
                           IN  nearest_impl(t, key, k, n.right, after_left, rects[2])

\* nearest(key, k): the points returned, the pools it created and destroyed,
\* and the final search state.
nearest(t, key, k) ==
    IF k = 0
    THEN [result |-> {}, created |-> 0, destroyed |-> 0, threw |-> FALSE,
          search |-> [ans |-> {}, used |-> <<>>, peakUsed |-> 0, peakEntries |-> 0,
                      peakKept |-> 0, tied |-> FALSE, failed |-> FALSE]]
    ELSE LET st == nearest_impl(t, key, k, t.root, NewSearch(k), WholePlane)
         IN  IF st.failed
             THEN [result |-> {}, created |-> 1, destroyed |-> 0, threw |-> TRUE,
                   search |-> st]
             ELSE IF st.ans = {}
             THEN [result |-> {}, created |-> 1, destroyed |-> 0, threw |-> FALSE,
                   search |-> st]
             ELSE [result |-> {e.second : e \in st.ans}, created |-> 1, destroyed |-> 1,
                   threw |-> FALSE, search |-> st]

(***************************************************************************)
(* The operations of the index, one action each.  A call is made when the  *)
(* previous one has returned and its result was taken (Return).            *)
(***************************************************************************)
None == [op |-> "none"]

BoundedSeqs(S, n) == UNION {[1..m -> S] : m \in 0..n}

SeqRange(s) == {s[i] : i \in 1..Len(s)}

\* PointSet::PointSet(filename): the points read, at most `cap` of them and
\* each in `grid`, are balanced into the tree.
ConstructFrom(grid, cap) ==
    /\ phase = "new"
    /\ \E s \in BoundedSeqs(grid, cap) :
        \E t \in balancing(EmptyTree, s, "Vertical") :
            /\ root' = t.root
            /\ nodes' = t.nodes
            /\ inputs' = SeqRange(s)
            /\ ret' = [op |-> "PointSet", points |-> s]
    /\ phase' = "ready"
    /\ UNCHANGED m_used_map

\* put(key) for a key in `grid`, while size() is below `cap`.
PutFrom(grid, cap) ==
    /\ phase = "ready"
    /\ ret = None
    /\ size(Tree) < cap
    /\ \E key \in grid :
        LET t == put(Tree, key)
        IN  /\ root' = t.root
            /\ nodes' = t.nodes
            /\ inputs' = inputs \cup {key}
            /\ ret' = [op |-> "put", key |-> key]
    /\ UNCHANGED <<phase, m_used_map>>

Construct == ConstructFrom(Points, MaxSize)

Put == PutFrom(Points, MaxSize)

Contains ==
    /\ phase = "ready"
    /\ ret = None
    /\ \E key \in Points :
        ret' = [op |-> "contains", key |-> key, result |-> contains(Tree, key)]
    /\ UNCHANGED <<phase, root, nodes, inputs, m_used_map>>

Nearest ==
    /\ phase = "ready"
    /\ ret = None
    /\ \E key \in Points, k \in 0..MaxK :
        LET r == nearest(Tree, key, k)
        IN  /\ ret' = [op |-> "nearest", key |-> key, k |-> k, result |-> r.result,
                       threw |-> r.threw, peakUsed |-> r.search.peakUsed,
                       peakEntries |-> r.search.peakEntries,
                       peakKept |-> r.search.peakKept,
                       tied |-> r.search.tied,
                       capacity |-> Len(r.search.used),
                       created |-> r.created, destroyed |-> r.destroyed]
    /\ UNCHANGED <<phase, root, nodes, inputs, m_used_map>>

Return ==
    /\ ret # None
    /\ ret' = None
    /\ UNCHANGED <<phase, root, nodes, inputs, m_used_map>>

Init ==
    /\ phase = "new"
    /\ root = 0
    /\ nodes = <<>>
    /\ inputs = {}
    /\ ret = None
    /\ m_used_map = <<>>

Next ==
    \/ Construct
    \/ Put
    \/ Contains
    \/ Nearest
    \/ Return

Spec == Init /\ [][Next]_vars

(***************************************************************************)
(* Range queries, on an index over the wider grid.                         *)
(***************************************************************************)
Rects == {r \in [left_bottom : WidePoints, right_top : WidePoints] :
            xmin(r) <= xmax(r) /\ ymin(r) <= ymax(r)}

WideConstruct == ConstructFrom(WidePoints, WideSize)

WidePut == PutFrom(WidePoints, WideSize)

Range ==
    /\ phase = "ready"
    /\ ret = None
    /\ \E key \in Rects :
        ret' = [op |-> "range", key |-> key, result |-> range(Tree, key)]
    /\ UNCHANGED <<phase, root, nodes, inputs, m_used_map>>

NextRange ==
    \/ WideConstruct
    \/ WidePut
    \/ Range
    \/ Return

SpecRange == Init /\ [][NextRange]_vars

(***************************************************************************)
(* The allocator on its own: a pool of any capacity from 1 to MaxCap, and  *)
(* any sequence of allocate and deallocate calls on it.                    *)
(***************************************************************************)
Allocate ==
    /\ ret = None
    /\ \E n \in 0..(MaxCap + 1) :
        LET a == Pool_allocate(m_used_map, n)
        IN  /\ m_used_map' = a.used
            /\ ret' = [op |-> "allocate", n |-> n, ok |-> a.ok, pos |-> a.pos,
                       before |-> m_used_map]
    /\ UNCHANGED <<phase, root, nodes, inputs>>

Deallocate ==
    /\ ret = None
    /\ \E ptr \in (-1)..MaxCap, n \in 0..(MaxCap + 1) :
        /\ m_used_map' = Pool_deallocate(m_used_map, ptr, n)
        /\ ret' = [op |-> "deallocate", ptr |-> ptr, n |-> n, before |-> m_used_map]
    /\ UNCHANGED <<phase, root, nodes, inputs>>

InitPool ==
    /\ phase = "pool"
    /\ root = 0
    /\ nodes = <<>>
    /\ inputs = {}
    /\ ret = None
    /\ \E obj_count \in 1..MaxCap : m_used_map = NewPool(obj_count)

NextPool ==
    \/ Allocate
    \/ Deallocate
    \/ Return

SpecPool == InitPool /\ [][NextPool]_vars

(***************************************************************************)
(* What the claims speak of.                                               *)
(***************************************************************************)
Ready == phase = "ready"

\* The nodes of the subtree of `node`.
RECURSIVE Subtree(_, _)
Subtree(t, node) ==
    IF node = 0 THEN {}
    ELSE {node} \cup Subtree(t, t.nodes[node].left) \cup Subtree(t, t.nodes[node].right)

StoredPoints(t) == {t.nodes[i].point : i \in Subtree(t, t.root)}

\* The number of nodes on the longest path from `node` down to a leaf.
RECURSIVE Height(_, _)
Height(t, node) ==
    IF node = 0 THEN 0
    ELSE 1 + Max2(Height(t, t.nodes[node].left), Height(t, t.nodes[node].right))

RECURSIVE FloorLog2(_)
FloorLog2(n) == IF n <= 1 THEN 0 ELSE 1 + FloorLog2(n \div 2)

CachedSize(t, node) == IF node = 0 THEN 0 ELSE t.nodes[node].size

InsideRect(p, r) ==
    /\ r.left_bottom.x <= p.x /\ p.x <= r.right_top.x
    /\ r.left_bottom.y <= p.y /\ p.y <= r.right_top.y

\* C1: range(R) yields exactly the stored points inside R, boundaries
\* included, whatever the order of insertion that built the index.
C1_RangeExact ==
    ret.op = "range" =>
        ret.result = {p \in StoredPoints(Tree) : InsideRect(p, ret.key)}

\* C2: nearest(key, k) yields min(k, size()) stored points, and no stored
\* point left out is nearer to key than a point returned (the distances
\* returned are the min(k, size()) smallest), ties included.
C2_NearestExact ==
    ret.op = "nearest" =>
        /\ ret.result \subseteq StoredPoints(Tree)
        /\ Cardinality(ret.result) = Min2(ret.k, size(Tree))
        /\ \A p \in ret.result : \A q \in StoredPoints(Tree) \ ret.result :
               Point_distance(ret.key, p) <= Point_distance(ret.key, q)

\* C3: after bulk construction from S, size() is the number of distinct
\* points of S, which is the number of nodes, and every cached size is 1
\* plus the cached sizes of the children.
C3_BulkSize ==
    ret.op = "PointSet" =>
        /\ size(Tree) = Cardinality(SeqRange(ret.points))
        /\ size(Tree) = Cardinality(Subtree(Tree, root))
        /\ \A i \in 1..Len(nodes) :
               nodes[i].size = 1 + CachedSize(Tree, nodes[i].left)
                                 + CachedSize(Tree, nodes[i].right)

\* C5: every pool a nearest call creates is destroyed before the call
\* returns, so that no pool is left live by it.
C5_NoLivePool == ret.op = "nearest" => ret.created - ret.destroyed = 0

\* C7: put(p) on an index that stores p changes nothing: not the nodes, not
\* their links and orientations, not their cached sizes.
C7_DuplicatePutNoop ==
    [][(ret.op = "none" /\ ret'.op = "put" /\ ret'.key \in StoredPoints(Tree))
          => (root' = root /\ nodes' = nodes)]_vars

\* C8: bulk construction from n >= 1 distinct points gives a tree of height
\* at most floor(log2(n)) + 1.
C8_BulkHeight ==
    (/\ ret.op = "PointSet"
     /\ Len(ret.points) >= 1
     /\ Cardinality(SeqRange(ret.points)) = Len(ret.points))
        => Height(Tree, root) <= FloorLog2(Len(ret.points)) + 1

\* C4: contains(p) is true exactly for the points given to the constructor
\* or to an earlier put, false for every p on an empty index, and a call of
\* contains leaves the index as it was.
C4_ContainsExact ==
    /\ [](Ready =>
            /\ \A p \in Points : contains(Tree, p) <=> p \in inputs
            /\ ret.op = "contains" => (ret.result <=> ret.key \in inputs)
            /\ (ret.op = "contains" /\ root = 0) => ~ret.result)
    /\ [][ret'.op = "contains" => (root' = root /\ nodes' = nodes)]_vars

C4_Witness ==
    /\ ret.op = "contains"
    /\ ret.result
    /\ Height(Tree, root) >= 3
    /\ ret.key = nodes[Len(nodes)].point
    /\ \E p \in Points : p \notin inputs

\* C9: in nearest(key, k) with k >= 1 the candidate map never holds more
\* than k + 1 entries, nor more than k once a node visit is over; the pool
\* of capacity k + 1 never has more than k + 1 slots occupied; and no
\* allocation of the map fails.
C9_SearchBounded ==
    (ret.op = "nearest" /\ ret.k >= 1) =>
        /\ ret.peakEntries <= ret.k + 1
        /\ ret.peakKept <= ret.k
        /\ ret.capacity = ret.k + 1
        /\ ret.peakUsed <= ret.k + 1
        /\ ~ret.threw

C9_Witness ==
    /\ ret.op = "nearest"
    /\ ret.k >= 1
    /\ ret.tied
    /\ ret.peakEntries = ret.k + 1
    /\ ret.peakUsed = ret.k + 1

\* C10: the tree is a 2D-tree: the root is Vertical, a child has the
\* orientation opposite to its parent's, the points in the left subtree of a
\* node are strictly below the node's point on the node's axis and those in
\* its right subtree are not below it.
C10_TreeInvariant ==
    Ready =>
        /\ root # 0 => nodes[root].orientation = "Vertical"
        /\ \A i \in 1..Len(nodes) :
            LET n == nodes[i]
            IN  /\ \A c \in {n.left, n.right} \ {0} :
                       nodes[c].orientation # n.orientation
                /\ \A m \in Subtree(Tree, n.left) :
                       IF n.orientation = "Vertical"
                       THEN nodes[m].point.x < n.point.x
                       ELSE nodes[m].point.y < n.point.y
                /\ \A m \in Subtree(Tree, n.right) :
                       IF n.orientation = "Vertical"
                       THEN nodes[m].point.x >= n.point.x
                       ELSE nodes[m].point.y >= n.point.y

C10_Witness ==
    /\ ret.op = "put"
    /\ \E i \in 1..Len(nodes) :
        /\ nodes[i].left # 0
        /\ nodes[i].right # 0
        /\ nodes[nodes[i].right].point.x = nodes[i].point.x
    /\ \E j \in 1..Len(nodes) : nodes[j].orientation = "Horizontal"

(***************************************************************************)
(* The allocator.                                                          *)
(***************************************************************************)
\* The slots s at which a run of n free slots of the bitmap starts.
RunStarts(used, n) ==
    {s \in 0..Len(used) :
        s + n <= Len(used) /\ \A i \in s..(s + n - 1) : ~used[i + 1]}

Marked(used, pos, n) ==
    [i \in 1..Len(used) |-> used[i] \/ (pos <= i - 1 /\ i - 1 < pos + n)]

FreeSlots(used) == {i \in 0..(Len(used) - 1) : ~used[i + 1]}

\* allocate(n) for the claim's reading of it: it succeeds exactly when a run
\* of n free slots exists, takes the lowest one and marks its n slots, and
\* otherwise fails and changes nothing.
FirstFit(before, after, n, ok, pos) ==
    /\ ok <=> RunStarts(before, n) # {}
    /\ ok => (pos = SetMin(RunStarts(before, n)) /\ after = Marked(before, pos, n))
    /\ ~ok => after = before

\* C6 as stated: allocate(count) is first fit for every count.
C6_FirstFitAnyCount ==
    ret.op = "allocate" => FirstFit(ret.before, m_used_map, ret.n, ret.ok, ret.pos)

\* C6 amended: allocate(count) is first fit for every count >= 1, so that it
\* fails for want of a run even when count slots are free in all, and a
\* single slot is had whenever one is free; allocate(0) succeeds exactly
\* when some slot is free, returns the lowest free slot and marks nothing.
C6_FirstFit ==
    ret.op = "allocate" =>
        /\ ret.n >= 1 => FirstFit(ret.before, m_used_map, ret.n, ret.ok, ret.pos)
        /\ (ret.n = 1 /\ UsedCount(ret.before) < Len(ret.before)) => ret.ok
        /\ ret.n = 0 =>
            /\ ret.ok <=> FreeSlots(ret.before) # {}
            /\ ret.ok => ret.pos = SetMin(FreeSlots(ret.before))
            /\ m_used_map = ret.before

C6_Witness ==
    /\ ret.op = "allocate"
    /\ ret.n >= 2
    /\ ~ret.ok
    /\ Cardinality(FreeSlots(ret.before)) >= ret.n

=============================================================================
